---- MODULE Spec2Model ----
(***************************************************************************)
(* TFMini-Plus I2C driver (TFMPI2C.h / TFMPI2C.cpp, v1.7.2).               *)
(*                                                                         *)
(* The driver is single-threaded and synchronous: every public operation   *)
(* runs to completion on the caller's thread, so each operation is one     *)
(* action.  The Wire (I2C) collaborator is external; what it answers       *)
(* during one call (bytes accepted by write, the endTransmission code,     *)
(* the bytes the device delivers to requestFrom) is the input `bus` of     *)
(* the action, and every call the driver makes on it is appended to the    *)
(* per-call log `wire`.                                                    *)
(*                                                                         *)
(* Arrays keep the source's 0-based indices (functions on 0..n-1); byte    *)
(* strings on the wire are sequences.                                      *)
(***************************************************************************)
EXTENDS Integers, Sequences, FiniteSets, TLC

VARIABLES
    tfmp,   \* the TFMPI2C instance: its public and private fields
    out,    \* the caller's dist, flux, temp variables (passed by reference)
    ret,    \* return value of the last public operation
    call,   \* the last public operation: name, arguments, bus behaviour
    wire,   \* calls made on the bus collaborator during the last operation
    statics \* the function-static flux, temp of the distance-only getData forms

vars == <<tfmp, out, ret, call, wire, statics>>

----------------------------------------------------------------------------
(* Buffer sizes and status codes, TFMPI2C.h *)

TFMP_DEFAULT_ADDRESS == 16
TFMP_FRAME_SIZE  == 9
TFMP_REPLY_SIZE  == 8
TFMP_COMMAND_MAX == 8

TFMP_READY     == 0
TFMP_CHECKSUM  == 3
TFMP_FAIL      == 6
TFMP_I2CREAD   == 7
TFMP_I2CWRITE  == 8
TFMP_I2CLENGTH == 9
TFMP_WEAK      == 10
TFMP_STRONG    == 11
TFMP_FLOOD     == 12

(* Command words, TFMPI2C.h: payload | command number | command length |   *)
(* reply length, from the most to the least significant byte.              *)
SET_SERIAL_MODE      == \H000A0500
SET_I2C_MODE         == \H010A0500
GET_FIRMWARE_VERSION == \H00010407
SET_FRAME_RATE       == \H00030606
STANDARD_FORMAT_CM   == \H01050505
STANDARD_FORMAT_MM   == \H06050505
SET_BAUD_RATE        == \H00060808
ENABLE_OUTPUT        == \H01070505
DISABLE_OUTPUT       == \H00070505
SET_I2C_ADDRESS      == \H100B0505
SOFT_RESET           == \H00020405
HARD_RESET           == \H00100405
SAVE_SETTINGS        == \H00110405
I2C_FORMAT_CM        == \H01000500
I2C_FORMAT_MM        == \H06000500
TRIGGER_DETECTION    == \H00040400

Commands ==
    { SET_SERIAL_MODE, SET_I2C_MODE, GET_FIRMWARE_VERSION, SET_FRAME_RATE,
      STANDARD_FORMAT_CM, STANDARD_FORMAT_MM, SET_BAUD_RATE, ENABLE_OUTPUT,
      DISABLE_OUTPUT, SET_I2C_ADDRESS, SOFT_RESET, HARD_RESET, SAVE_SETTINGS,
      I2C_FORMAT_CM, I2C_FORMAT_MM, TRIGGER_DETECTION }

----------------------------------------------------------------------------
(* Fixed-width integer arithmetic *)

\* (uint8_t)x
U8(x) == x % 256

\* x as stored in a uint16_t
U16(x) == x % 65536

\* x as stored in an int16_t (two's complement)
I16(x) == IF x % 65536 >= 32768 THEN (x % 65536) - 65536 ELSE x % 65536

\* byte i of a 32-bit word in memory, as memcpy sees it (little-endian target)
ByteOf(w, i) == (w \div (2 ^ (8 * i))) % 256

\* x >> n on a signed value (arithmetic shift: floor division)
Sar(x, n) == x \div (2 ^ n)

\* a[from] + ... + a[to - 1]
RECURSIVE SumBytes(_, _, _)
SumBytes(a, from, to) ==
    IF from >= to THEN 0 ELSE a[from] + SumBytes(a, from + 1, to)

\* memset( buf, 0, n)
Zeros(n) == [i \in 0 .. n - 1 |-> 0]

\* memcpy( &buf[ at], &word, n)
MemcpyWord(buf, at, word, n) ==
    [i \in DOMAIN buf |->
        IF i >= at /\ i < at + n THEN ByteOf(word, i - at) ELSE buf[i]]

\* the first n bytes of an array, as the byte string handed to the bus
Bytes(a, n) == [i \in 1 .. n |-> a[i - 1]]

----------------------------------------------------------------------------
(* The bus collaborator.  One log entry per call the driver makes on it.   *)

W(op, addr, data, r) == [op |-> op, addr |-> addr, data |-> data, r |-> r]

\* Wire.write( buf, n) accepts n bytes less the shortfall the bus imposes
Accepted(bus, n) == IF bus.short >= n THEN 0 ELSE n - bus.short

\* Wire.read(): the next delivered byte, or -1 when none is left
WireRead(rx, i) == IF i < Len(rx) THEN rx[i + 1] ELSE -1

\* Wire.peek(): as Wire.read(), without consuming the byte
WirePeek(rx, i) == IF i < Len(rx) THEN rx[i + 1] ELSE -1

\* the bytes Wire.requestFrom( addr, n, true) leaves in the receive buffer:
\* at most n of what the device delivers
Received(bus, n) == SubSeq(bus.rx, 1, IF Len(bus.rx) < n THEN Len(bus.rx) ELSE n)

----------------------------------------------------------------------------
(* sendCommand, step 1: build the command data *)

\* the indices of cmndData, reply and frame that the code reads or writes

\* how many bytes of param are copied to cmndData[ 3]
ParamBytes(cmnd) ==
    IF cmnd = SET_FRAME_RATE THEN 2
    ELSE IF cmnd = SET_BAUD_RATE THEN 4
    ELSE IF cmnd = SET_I2C_ADDRESS THEN 1
    ELSE 0

\* CmndChkIndex one place further on
CmndChkIndexPast(cmndLen) == cmndLen

\* cmndData[ cmndLen - 1] = uint8_t( chkSum);
CmndChkIndex(cmndLen) == cmndLen - 1

\* step 1 writes the command word, the header, the parameter, the checksum
CmndDataWritten(cmnd) ==
    (0 .. 3) \cup {0} \cup (3 .. 3 + ParamBytes(cmnd) - 1)
      \cup { CmndChkIndex(ByteOf(cmnd, 1)) }

\* for( uint8_t i = 0; i < replyLen; i++) reply[ i] = ...
ReplyWritten(replyLen) == 0 .. replyLen - 1

\* if( reply[ replyLen - 1] != (uint8_t)chkSum)
ReplyChkIndex(replyLen) == replyLen - 1

\* the reply bytes that step 5 looks at
ReplyInterpreted(cmnd) ==
    IF cmnd = GET_FIRMWARE_VERSION THEN {3, 4, 5}
    ELSE IF cmnd \in {SOFT_RESET, HARD_RESET, SAVE_SETTINGS} THEN {3}
    ELSE {}

\* CmndParam copying all four bytes of param whatever the command
CmndParamFour(cmnd, param) ==
    LET c0 == MemcpyWord(Zeros(TFMP_COMMAND_MAX), 0, cmnd, 4)
        c1 == [c0 EXCEPT ![0] = \H5A]
    IN  IF cmnd \in {SET_FRAME_RATE, SET_BAUD_RATE, SET_I2C_ADDRESS}
        THEN MemcpyWord(c1, 3, param, 4)
        ELSE c1

\* memset, memcpy of the command word, header byte, parameter bytes
CmndParam(cmnd, param) ==
    LET c0 == MemcpyWord(Zeros(TFMP_COMMAND_MAX), 0, cmnd, 4)
        c1 == [c0 EXCEPT ![0] = \H5A]
    IN  IF cmnd = SET_FRAME_RATE THEN MemcpyWord(c1, 3, param, 2)
        ELSE IF cmnd = SET_BAUD_RATE THEN MemcpyWord(c1, 3, param, 4)
        ELSE IF cmnd = SET_I2C_ADDRESS THEN MemcpyWord(c1, 3, param, 1)
        ELSE c1

\* CmndChkSum with the header byte left out of the sum
CmndChkSumNoHeader(data, cmndLen) == U16(SumBytes(data, 1, cmndLen - 1))

\* chkSum of the command: all bytes but the last
CmndChkSum(data, cmndLen) == U16(SumBytes(data, 0, cmndLen - 1))

\* the fields of the instance after step 1
BuildCmnd(self, cmnd, param) ==
    LET word     == MemcpyWord(Zeros(TFMP_COMMAND_MAX), 0, cmnd, 4)
        replyLen == word[0]
        cmndLen  == word[1]
        data     == CmndParam(cmnd, param)
        sum      == CmndChkSum(data, cmndLen)
    IN  [self EXCEPT !.replyLen = replyLen,
                     !.cmndLen  = cmndLen,
                     !.chkSum   = sum,
                     !.cmndData = [data EXCEPT ![CmndChkIndex(cmndLen)] = U8(sum)]]

----------------------------------------------------------------------------
(* sendCommand, step 2: send the command data *)

\* result of an operation: the instance, the return value, the bus calls
Result(self, r, w) == [self |-> self, ret |-> r, wire |-> w]

\* Wire.beginTransmission( addr); Wire.write( cmndData, cmndLen)
WriteCmnd(self, addr, bus) ==
    << W("beginTransmission", addr, <<>>, 0),
       W("write", addr, Bytes(self.cmndData, self.cmndLen),
         Accepted(bus, self.cmndLen)) >>

\* ShortWrite that starts the transmission over after the short write
ShortWriteRetry(self, addr, bus) ==
    Result([self EXCEPT !.status = TFMP_I2CLENGTH], FALSE,
           WriteCmnd(self, addr, bus)
             \o << W("write", addr, <<0>>, 0),
                   W("endTransmission", addr, <<>>, bus.endCode) >>
             \o WriteCmnd(self, addr, bus)
             \o << W("endTransmission", addr, <<>>, bus.endCode) >>)

\* ShortWrite reporting the write error code instead of the length code
ShortWriteAsWriteError(self, addr, bus) ==
    Result([self EXCEPT !.status = TFMP_I2CWRITE], FALSE,
           WriteCmnd(self, addr, bus)
             \o << W("write", addr, <<0>>, 0),
                   W("endTransmission", addr, <<>>, bus.endCode) >>)

\* the short-write branch: status, a zero byte, endTransmission, false
ShortWrite(self, addr, bus) ==
    Result([self EXCEPT !.status = TFMP_I2CLENGTH], FALSE,
           WriteCmnd(self, addr, bus)
             \o << W("write", addr, <<0>>, 0),
                   W("endTransmission", addr, <<>>, bus.endCode) >>)

\* Settle that gives the device no time at all
SettleNever(replyLen) == <<>>

\* Settle with the delay ahead of the reply-length test
SettleAlways(replyLen) == << W("delay", 0, <<>>, 500) >>

\* if( replyLen == 0) return true; else delay( 500);
Settle(replyLen) ==
    IF replyLen = 0 THEN <<>> ELSE << W("delay", 0, <<>>, 500) >>

----------------------------------------------------------------------------
(* sendCommand, steps 3 to 5: the reply *)

\* ReplyAddr without the address change
ReplyAddrUnchanged(cmnd, param, addr) == addr

\* if( cmnd == SET_I2C_ADDRESS) addr = uint8_t(param);
ReplyAddr(cmnd, param, addr) ==
    IF cmnd = SET_I2C_ADDRESS THEN U8(param) ELSE addr

\* memset( reply, 0, sizeof( reply)); reply[ i] = (uint8_t)Wire.read();
ReadReply(rx, replyLen) ==
    [i \in 0 .. TFMP_REPLY_SIZE |->
        IF i < replyLen THEN U8(WireRead(rx, i)) ELSE 0]

\* the log of that loop: one Wire.read() per expected byte
ReadCalls(rx, addr, replyLen) ==
    [i \in 1 .. replyLen |-> W("read", addr, <<>>, WireRead(rx, i - 1))]

\* chkSum of the reply: all bytes but the last
ReplyChkSum(reply, replyLen) == U16(SumBytes(reply, 0, replyLen - 1))

\* if( reply[ replyLen - 1] != (uint8_t)chkSum)
ReplyChkSumBad(reply, replyLen, sum) ==
    reply[ReplyChkIndex(replyLen)] # U8(sum)

\* the PASS/FAIL test of SOFT_RESET, HARD_RESET, SAVE_SETTINGS
ReplyFail(cmnd, reply) ==
    /\ cmnd \in {SOFT_RESET, HARD_RESET, SAVE_SETTINGS}
    /\ reply[3] = 1

\* SetVersion copying the three bytes in their order in the reply
SetVersionInOrder(reply) == [i \in 0 .. 2 |-> reply[3 + i]]

\* version[ 0] = reply[5]; version[ 1] = reply[4]; version[ 2] = reply[3];
SetVersion(reply) == [i \in 0 .. 2 |-> reply[5 - i]]

\* Interpret taking the version bytes from the reply to any command
InterpretAnyVersion(self, cmnd, w) ==
    LET s == [self EXCEPT !.version = SetVersion(self.reply)]
    IN  IF cmnd = GET_FIRMWARE_VERSION
        THEN Result(s, TRUE, w)
        ELSE IF ReplyFail(cmnd, s.reply)
             THEN Result([s EXCEPT !.status = TFMP_FAIL], FALSE, w)
             ELSE Result(s, TRUE, w)

\* step 5, after the checksum test has passed
Interpret(self, cmnd, w) ==
    IF cmnd = GET_FIRMWARE_VERSION
    THEN Result([self EXCEPT !.version = SetVersion(self.reply)], TRUE, w)
    ELSE IF ReplyFail(cmnd, self.reply)
         THEN Result([self EXCEPT !.status = TFMP_FAIL], FALSE, w)
         ELSE Result(self, TRUE, w)

\* steps 3 and 4, then 5
GetReply(self, cmnd, param, addr, bus, w) ==
    LET to    == ReplyAddr(cmnd, param, addr)
        rx    == Received(bus, self.replyLen)
        reply == ReadReply(rx, self.replyLen)
        sum   == ReplyChkSum(reply, self.replyLen)
        s     == [self EXCEPT !.reply = reply, !.chkSum = sum]
        w2    == w \o << W("requestFrom", to, <<>>, self.replyLen) >>
                   \o ReadCalls(rx, to, self.replyLen)
    IN  IF ReplyChkSumBad(reply, self.replyLen, sum)
        THEN Result([s EXCEPT !.status = TFMP_CHECKSUM], FALSE, w2)
        ELSE Interpret(s, cmnd, w2)

\* bool TFMPI2C::sendCommand( uint32_t cmnd, uint32_t param, uint8_t addr)
sendCommand(self, cmnd, param, addr, bus) ==
    LET s == BuildCmnd(self, cmnd, param)
        w == WriteCmnd(s, addr, bus)
                \o << W("endTransmission", addr, <<>>, bus.endCode) >>
    IN  IF Accepted(bus, s.cmndLen) # s.cmndLen THEN ShortWrite(s, addr, bus)
        ELSE IF bus.endCode # 0
             THEN Result([s EXCEPT !.status = TFMP_I2CWRITE], FALSE, w)
        ELSE IF s.replyLen = 0 THEN Result(s, TRUE, w \o Settle(s.replyLen))
        ELSE GetReply(s, cmnd, param, addr, bus, w \o Settle(s.replyLen))

----------------------------------------------------------------------------
(* getData *)

\* result of getData: as Result, with the caller's output variables
DataResult(self, r, w, o) == [self |-> self, ret |-> r, wire |-> w, out |-> o]

\* number of frame bytes the read loop stores before it ends
FrameRead(rx) == IF Len(rx) < TFMP_FRAME_SIZE THEN Len(rx) ELSE TFMP_FRAME_SIZE

\* memset( frame, 0, sizeof( frame)); frame[ i] = uint8_t( Wire.read());
ReadFrame(rx) ==
    [i \in 0 .. TFMP_FRAME_SIZE |->
        IF i < FrameRead(rx) THEN U8(WireRead(rx, i)) ELSE 0]

\* if( Wire.peek() == -1): a byte is missing where the loop expects one
FrameShort(rx) ==
    \E i \in 0 .. TFMP_FRAME_SIZE - 1 : WirePeek(rx, i) = -1

\* the log of the read loop: peek then read per byte, a last peek of -1
\* when the loop ends early
PeekCalls(rx, addr) ==
    [j \in 1 .. 2 * FrameRead(rx) |->
        IF j % 2 = 1 THEN W("peek", addr, <<>>, WirePeek(rx, (j - 1) \div 2))
                     ELSE W("read", addr, <<>>, WireRead(rx, (j - 2) \div 2))]
      \o (IF FrameShort(rx)
          THEN << W("peek", addr, <<>>, WirePeek(rx, FrameRead(rx))) >>
          ELSE <<>>)

\* FrameChkSum with the loop ending one byte early
FrameChkSumShort(frame) == U16(SumBytes(frame, 0, TFMP_FRAME_SIZE - 2))

\* chkSum of the data frame: all bytes but the last
FrameChkSum(frame) == U16(SumBytes(frame, 0, TFMP_FRAME_SIZE - 1))

\* if( ( uint8_t)chkSum != frame[ TFMP_FRAME_SIZE - 1])
FrameChkSumBad(frame, sum) == U8(sum) # frame[TFMP_FRAME_SIZE - 1]

\* FrameWord taking the high byte first
FrameWordBigEndian(frame, at) == I16(frame[at] * 256 + frame[at + 1])

\* int16_t x = frame[ at] + ( frame[ at + 1] << 8);
FrameWord(frame, at) == I16(frame[at] + frame[at + 1] * 256)

\* Celsius on an unsigned temperature code (logical shift)
CelsiusUnsigned(temp) == I16((U16(temp) \div 8) - 256)

\* Celsius with a shift of 4 bits
CelsiusShift4(temp) == I16(Sar(temp, 4) - 256)

\* temp = ( temp >> 3) - 256;
Celsius(temp) == I16(Sar(temp, 3) - 256)

\* Classify with the flux test ahead of the distance tests
ClassifyFluxFirst(dist, flux) ==
    IF flux = -1 THEN TFMP_STRONG
    ELSE IF dist = -1 THEN TFMP_WEAK
    ELSE IF dist = -4 THEN TFMP_FLOOD
    ELSE TFMP_READY

\* the abnormal data values, in the order the source tests them
Classify(dist, flux) ==
    IF dist = -1 THEN TFMP_WEAK
    ELSE IF flux = -1 THEN TFMP_STRONG
    ELSE IF dist = -4 THEN TFMP_FLOOD
    ELSE TFMP_READY

\* DataOkay that lets the ambient light saturation through
DataOkayButFlood(status) == status = TFMP_READY \/ status = TFMP_FLOOD

\* if( status != TFMP_READY) return false; else return true;
DataOkay(status) == status = TFMP_READY

\* Decode that hands out the values of a Ready frame only
DecodeReadyOnly(self, w) ==
    LET dist == FrameWord(self.frame, 2)
        flux == FrameWord(self.frame, 4)
        temp == Celsius(FrameWord(self.frame, 6))
        st   == Classify(dist, flux)
    IN  DataResult([self EXCEPT !.status = st], DataOkay(st), w,
                   IF st = TFMP_READY
                   THEN [dist |-> dist, flux |-> flux, temp |-> temp]
                   ELSE [dist |-> 0, flux |-> 0, temp |-> 0])

\* step 3: interpret the frame data
Decode(self, w) ==
    LET dist == FrameWord(self.frame, 2)
        flux == FrameWord(self.frame, 4)
        temp == Celsius(FrameWord(self.frame, 6))
        st   == Classify(dist, flux)
    IN  DataResult([self EXCEPT !.status = st], DataOkay(st), w,
                   [dist |-> dist, flux |-> flux, temp |-> temp])

\* GetFrame with the frame decoded ahead of the checksum test
GetFrameDecodeFirst(self, o, addr, bus, w) ==
    LET rx    == Received(bus, TFMP_FRAME_SIZE)
        frame == ReadFrame(rx)
        sum   == FrameChkSum(frame)
        w2    == w \o << W("requestFrom", addr, <<>>, TFMP_FRAME_SIZE) >>
                   \o PeekCalls(rx, addr)
        s     == [self EXCEPT !.frame = frame]
        d     == Decode([s EXCEPT !.chkSum = sum], w2)
    IN  IF FrameShort(rx)
        THEN DataResult([s EXCEPT !.status = TFMP_I2CREAD], FALSE, w2, o)
        ELSE IF FrameChkSumBad(frame, sum)
        THEN DataResult([s EXCEPT !.status = TFMP_CHECKSUM, !.chkSum = sum],
                        FALSE, w2, d.out)
        ELSE d

\* steps 1 and 2, then 3
GetFrame(self, o, addr, bus, w) ==
    LET rx    == Received(bus, TFMP_FRAME_SIZE)
        frame == ReadFrame(rx)
        sum   == FrameChkSum(frame)
        w2    == w \o << W("requestFrom", addr, <<>>, TFMP_FRAME_SIZE) >>
                   \o PeekCalls(rx, addr)
        s     == [self EXCEPT !.frame = frame]
    IN  IF FrameShort(rx)
        THEN DataResult([s EXCEPT !.status = TFMP_I2CREAD], FALSE, w2, o)
        ELSE IF FrameChkSumBad(frame, sum)
        THEN DataResult([s EXCEPT !.status = TFMP_CHECKSUM, !.chkSum = sum],
                        FALSE, w2, o)
        ELSE Decode([s EXCEPT !.chkSum = sum], w2)

\* getData that goes on to read the frame whatever sendCommand returned
getDataReadAnyway(self, o, addr, bus) ==
    LET c == sendCommand([self EXCEPT !.status = TFMP_READY],
                         I2C_FORMAT_CM, 0, addr, bus)
    IN  GetFrame(c.self, o, addr, bus, c.wire)

\* bool TFMPI2C::getData( int16_t &dist, int16_t &flux, int16_t &temp,
\*                        uint8_t addr)
getData(self, o, addr, bus) ==
    LET c == sendCommand([self EXCEPT !.status = TFMP_READY],
                         I2C_FORMAT_CM, 0, addr, bus)
    IN  IF c.ret # TRUE THEN DataResult(c.self, FALSE, c.wire, o)
        ELSE GetFrame(c.self, o, addr, bus, c.wire)

----------------------------------------------------------------------------
(* The convenience forms.  The distance-only forms hand their own static    *)
(* flux, temp to the full form; `flux` and `temp` of the result are those.  *)

\* bool TFMPI2C::getData( int16_t &dist, int16_t &flux, int16_t &temp)
getData_dist_flux_temp(self, o, bus) ==
    getData(self, o, TFMP_DEFAULT_ADDRESS, bus)

\* bool TFMPI2C::getData( int16_t &dist, uint8_t addr)
getData_dist_addr(self, dist, static, addr, bus) ==
    getData(self, [dist |-> dist, flux |-> static.flux, temp |-> static.temp],
            addr, bus)

\* getData( dist) asking the device next to the default address
getData_dist_next(self, dist, static, bus) ==
    getData(self, [dist |-> dist, flux |-> static.flux, temp |-> static.temp],
            TFMP_DEFAULT_ADDRESS + 1, bus)

\* bool TFMPI2C::getData( int16_t &dist)
getData_dist(self, dist, static, bus) ==
    getData(self, [dist |-> dist, flux |-> static.flux, temp |-> static.temp],
            TFMP_DEFAULT_ADDRESS, bus)

\* bool TFMPI2C::sendCommand( uint32_t cmnd, uint32_t param)
sendCommand_cmnd_param(self, cmnd, param, bus) ==
    sendCommand(self, cmnd, param, TFMP_DEFAULT_ADDRESS, bus)

----------------------------------------------------------------------------
(* recoverI2CBus: the pins are driven directly, bypassing Wire.  The calls  *)
(* on the pin-level collaborator go to the same log, the pin in `addr`, the *)
(* mode or level in `r`.                                                    *)

INPUT  == 0
OUTPUT == 1
LOW    == 0
HIGH   == 1

PinMode(pin, mode)       == W("pinMode", pin, <<>>, mode)
DigitalWrite(pin, level) == W("digitalWrite", pin, <<>>, level)
DelayMicroseconds(us)    == W("delayMicroseconds", 0, <<>>, us)

\* keep SDA high during recovery
HoldData(dataPin, clockPin) ==
    << PinMode(dataPin, OUTPUT), DigitalWrite(dataPin, HIGH),
       PinMode(clockPin, OUTPUT) >>

\* one pass of the loop body
ClockPulse(clockPin) ==
    << DigitalWrite(clockPin, HIGH), DelayMicroseconds(5),
       DigitalWrite(clockPin, LOW), DelayMicroseconds(5) >>

\* the body n times
RECURSIVE Pulses(_, _)
Pulses(clockPin, n) ==
    IF n = 0 THEN <<>> ELSE ClockPulse(clockPin) \o Pulses(clockPin, n - 1)

\* ClockPulses with the loop ending after the ninth cycle
ClockPulsesNine(clockPin) == Pulses(clockPin, 9)

\* for (int i = 0; i < 10; i++)
ClockPulses(clockPin) == Pulses(clockPin, 10)

\* StopSignal raising the data line before the clock line
StopSignalDataFirst(dataPin, clockPin) ==
    << DigitalWrite(dataPin, LOW), DelayMicroseconds(5),
       DigitalWrite(dataPin, HIGH), DelayMicroseconds(2),
       DigitalWrite(clockPin, HIGH), DelayMicroseconds(2) >>

\* STOP signal: SDA low to high while CLK high
StopSignal(dataPin, clockPin) ==
    << DigitalWrite(dataPin, LOW), DelayMicroseconds(5),
       DigitalWrite(clockPin, HIGH), DelayMicroseconds(2),
       DigitalWrite(dataPin, HIGH), DelayMicroseconds(2) >>

\* Release with the Wire library restored while the pins are still outputs
ReleaseBeginFirst(dataPin, clockPin) ==
    << W("begin", 0, <<>>, 0),
       PinMode(dataPin, INPUT), PinMode(clockPin, INPUT) >>

\* return pins to INPUT mode, restore Wire library
Release(dataPin, clockPin) ==
    << PinMode(dataPin, INPUT), PinMode(clockPin, INPUT),
       W("begin", 0, <<>>, 0) >>

\* void TFMPI2C::recoverI2CBus( uint8_t dataPin, uint8_t clockPin)
recoverI2CBus(dataPin, clockPin) ==
    HoldData(dataPin, clockPin) \o ClockPulses(clockPin)
      \o StopSignal(dataPin, clockPin) \o Release(dataPin, clockPin)

----------------------------------------------------------------------------
(* What the callers pass and what the bus answers *)

\* most bytes a write or a read may fall short of what was asked
MaxShort == 1
\* largest endTransmission error code the bus reports
MaxEndCode == 2
\* largest value of the first payload byte of a reply
MaxPayload == 2

Addrs  == {TFMP_DEFAULT_ADDRESS, 17}
Params == {0, \H000003E8, \H0001C200, \H7A6B5C2D}

\* a bus whose write or endTransmission fails: nothing is ever delivered
BadWrites ==
    { [short |-> s, endCode |-> e, rx |-> <<>>] :
        s \in 0 .. MaxShort, e \in 0 .. MaxEndCode } \
    { [short |-> 0, endCode |-> 0, rx |-> <<>>] }

\* a bus with a clean write that delivers one of the byte strings in rxs
CleanWrites(rxs) == { [short |-> 0, endCode |-> 0, rx |-> r] : r \in rxs }

\* the prefixes of a byte string the device may deliver: nothing at all,
\* or all but the last few bytes
Delivered(bytes) ==
    { SubSeq(bytes, 1, k) :
        k \in {0} \cup { n \in 0 .. Len(bytes) : Len(bytes) - n <= MaxShort } }

RECURSIVE SumSeq(_)
SumSeq(q) == IF q = <<>> THEN 0 ELSE Head(q) + SumSeq(Tail(q))

\* body, then the sum of the body plus delta as last byte
WithSum(body, delta) == body \o << (SumSeq(body) + delta) % 256 >>

\* a reply to cmnd: header, length, command number, payload p, p+1, ...
ReplyBody(cmnd, p) ==
    [i \in 1 .. ByteOf(cmnd, 0) - 1 |->
        IF i = 1 THEN 90
        ELSE IF i = 2 THEN ByteOf(cmnd, 0)
        ELSE IF i = 3 THEN ByteOf(cmnd, 2)
        ELSE (p + i - 4) % 256]

\* what the device may deliver after cmnd: a reply with a right or a wrong
\* last byte, whole or cut short
ReplyRx(cmnd) ==
    IF ByteOf(cmnd, 0) = 0 THEN { <<>> }
    ELSE UNION { Delivered(WithSum(ReplyBody(cmnd, p), d)) :
                    p \in 0 .. MaxPayload, d \in {0, 1} }

CmndBus(cmnd) == BadWrites \cup CleanWrites(ReplyRx(cmnd))

\* a data frame: two header bytes, three little-endian 16-bit words
FrameBody(d, f, t) ==
    << 89, 89, d % 256, d \div 256, f % 256, f \div 256, t % 256, t \div 256 >>

DistWords == {0, 100, \H8000, \HFFFC, \HFFFF}
FluxWords == {200, \H7FFF, \HFFFF}
TempWords == {0, \H0800, \H0918, \H0FFF, \HF007, \HFFFF}

\* data frames whose last byte is the sum of the others
GoodFrames ==
    { WithSum(FrameBody(d, f, t), 0) :
        d \in DistWords, f \in FluxWords, t \in TempWords }

\* byte b with bit k inverted
FlipBit(b, k) == IF (b \div (2 ^ k)) % 2 = 1 THEN b - 2 ^ k ELSE b + 2 ^ k

\* frame with bit k of the byte at offset at inverted
Corrupt(frame, at, k) == [frame EXCEPT ![at + 1] = FlipBit(@, k)]

\* good frames with one bit of bytes 0..7 inverted on the way
FlippedFrames ==
    { Corrupt(fr, at, k) : fr \in GoodFrames, at \in 0 .. 7, k \in 0 .. 7 }

\* what the device may deliver to getData
\* the nine bytes of the specification's end-to-end scenario
ScenarioFrame == << \H59, \H59, \H64, \H00, \HC8, \H00, \H18, \H09, \H0E >>

DataRx ==
    FlippedFrames \cup { ScenarioFrame } \cup
    UNION { Delivered(WithSum(FrameBody(d, f, t), e)) :
              d \in DistWords, f \in FluxWords, t \in TempWords, e \in {0, 1} }

DataBus == BadWrites \cup CleanWrites(DataRx)

\* arguments and bus behaviour of one sendCommand, of one getData
CmndInputs ==
    UNION { { <<c, p, a, b>> : p \in Params, a \in Addrs, b \in CmndBus(c) } :
              c \in Commands }

DataInputs == { <<a, b>> : a \in Addrs, b \in DataBus }

(* The calls of a sketch that go on for ever: a few commands, one of each   *)
(* kind of reply handling, and a few answers of the bus to each.            *)
SeqCommands ==
    { TRIGGER_DETECTION, GET_FIRMWARE_VERSION, SAVE_SETTINGS, SET_I2C_ADDRESS }

SeqBadWrites ==
    { [short |-> 1, endCode |-> 0, rx |-> <<>>],
      [short |-> 0, endCode |-> MaxEndCode, rx |-> <<>>] }

SeqReplyRx(cmnd) ==
    IF ByteOf(cmnd, 0) = 0 THEN { <<>> }
    ELSE { WithSum(ReplyBody(cmnd, 0), 0), WithSum(ReplyBody(cmnd, 1), 0),
           WithSum(ReplyBody(cmnd, 0), 1), <<>> }

SeqDataRx ==
    { WithSum(FrameBody(d, f, \H0918), 0) :
        d \in {100, \HFFFC, \HFFFF}, f \in {200, \HFFFF} }
    \cup { WithSum(FrameBody(100, 200, \H0918), 1), <<>>,
           SubSeq(WithSum(FrameBody(100, 200, \H0918), 0), 1, 8) }

SeqCmndInputs ==
    UNION { { <<c, \H7A6B5C2D, TFMP_DEFAULT_ADDRESS, b>> :
                b \in SeqBadWrites \cup CleanWrites(SeqReplyRx(c)) } :
              c \in SeqCommands }

SeqDataInputs ==
    { <<TFMP_DEFAULT_ADDRESS, b>> :
        b \in SeqBadWrites \cup CleanWrites(SeqDataRx) }

\* the data and clock pins of the boards' I2C buses
PinPairs == { << 18, 19 >>, << 20, 21 >> }

----------------------------------------------------------------------------
(* The state machine *)

\* TFMPI2C::TFMPI2C(){} on an instance with static storage, as the sketches
\* declare it: every field is zero
Init ==
    /\ tfmp = [ version  |-> Zeros(3),
                status   |-> 0,
                frame    |-> Zeros(TFMP_FRAME_SIZE + 1),
                reply    |-> Zeros(TFMP_REPLY_SIZE + 1),
                chkSum   |-> 0,
                replyLen |-> 0,
                cmndLen  |-> 0,
                cmndData |-> Zeros(TFMP_COMMAND_MAX) ]
    /\ out  = [dist |-> 0, flux |-> 0, temp |-> 0]
    /\ ret  = FALSE
    /\ call = [name |-> "new", cmnd |-> 0, param |-> 0, addr |-> 0,
               bus |-> [short |-> 0, endCode |-> 0, rx |-> <<>>],
               pins |-> <<>>]
    /\ wire = <<>>
    /\ statics = [getData_dist_addr |-> [flux |-> 0, temp |-> 0],
                  getData_dist      |-> [flux |-> 0, temp |-> 0]]

\* tfmp.sendCommand( cmnd, param, addr)
SendCommandWith(cmnd, param, addr, bus) ==
    \E r \in {sendCommand(tfmp, cmnd, param, addr, bus)} :
        /\ tfmp' = r.self
        /\ ret'  = r.ret
        /\ wire' = r.wire
        /\ call' = [name |-> "sendCommand", cmnd |-> cmnd, param |-> param,
                    addr |-> addr, bus |-> bus, pins |-> <<>>]
        /\ UNCHANGED << out, statics >>

\* tfmp.getData( out.dist, out.flux, out.temp, addr)
GetDataWith(addr, bus) ==
    \E r \in {getData(tfmp, out, addr, bus)} :
        /\ tfmp' = r.self
        /\ out'  = r.out
        /\ ret'  = r.ret
        /\ wire' = r.wire
        /\ call' = [name |-> "getData", cmnd |-> 0, param |-> 0,
                    addr |-> addr, bus |-> bus, pins |-> <<>>]
        /\ UNCHANGED statics

\* tfmp.recoverI2CBus( dataPin, clockPin)
RecoverI2CBusWith(dataPin, clockPin) ==
    /\ wire' = recoverI2CBus(dataPin, clockPin)
    /\ call' = [name |-> "recoverI2CBus", cmnd |-> 0, param |-> 0, addr |-> 0,
                bus |-> [short |-> 0, endCode |-> 0, rx |-> <<>>],
                pins |-> << dataPin, clockPin >>]
    /\ UNCHANGED << tfmp, out, ret, statics >>

(* Any sequence of calls *)
SendCommand ==
    \E in \in SeqCmndInputs : SendCommandWith(in[1], in[2], in[3], in[4])

GetData ==
    \E in \in SeqDataInputs : GetDataWith(in[1], in[2])

RecoverI2CBus ==
    \E pins \in PinPairs : RecoverI2CBusWith(pins[1], pins[2])

Next == SendCommand \/ GetData \/ RecoverI2CBus

Spec == Init /\ [][Next]_vars

(* The convenience forms, as the first or the second call on an instance *)
NoCall == [name |-> "new", cmnd |-> 0, param |-> 0, addr |-> 0,
           bus |-> [short |-> 0, endCode |-> 0, rx |-> <<>>], pins |-> <<>>]

\* tfmp.getData( out.dist, out.flux, out.temp)
GetDataDistFluxTempWith(bus) ==
    \E r \in {getData_dist_flux_temp(tfmp, out, bus)} :
        /\ tfmp' = r.self
        /\ out'  = r.out
        /\ ret'  = r.ret
        /\ wire' = r.wire
        /\ call' = [NoCall EXCEPT !.name = "getData_dist_flux_temp", !.bus = bus]
        /\ UNCHANGED statics

\* tfmp.getData( out.dist, addr)
GetDataDistAddrWith(addr, bus) ==
    \E r \in {getData_dist_addr(tfmp, out.dist, statics.getData_dist_addr,
                                addr, bus)} :
        /\ tfmp' = r.self
        /\ out'  = [out EXCEPT !.dist = r.out.dist]
        /\ ret'  = r.ret
        /\ wire' = r.wire
        /\ call' = [NoCall EXCEPT !.name = "getData_dist_addr", !.addr = addr,
                                  !.bus = bus]
        /\ statics' = [statics EXCEPT !.getData_dist_addr =
                          [flux |-> r.out.flux, temp |-> r.out.temp]]

\* tfmp.getData( out.dist)
GetDataDistWith(bus) ==
    \E r \in {getData_dist(tfmp, out.dist, statics.getData_dist, bus)} :
        /\ tfmp' = r.self
        /\ out'  = [out EXCEPT !.dist = r.out.dist]
        /\ ret'  = r.ret
        /\ wire' = r.wire
        /\ call' = [NoCall EXCEPT !.name = "getData_dist", !.bus = bus]
        /\ statics' = [statics EXCEPT !.getData_dist =
                          [flux |-> r.out.flux, temp |-> r.out.temp]]

\* tfmp.sendCommand( cmnd, param)
SendCommandCmndParamWith(cmnd, param, bus) ==
    \E r \in {sendCommand_cmnd_param(tfmp, cmnd, param, bus)} :
        /\ tfmp' = r.self
        /\ ret'  = r.ret
        /\ wire' = r.wire
        /\ call' = [NoCall EXCEPT !.name = "sendCommand_cmnd_param",
                                  !.cmnd = cmnd, !.param = param, !.bus = bus]
        /\ UNCHANGED << out, statics >>

FullForms == {"sendCommand", "getData"}

FirstFullForm ==
    /\ call.name = "new"
    /\ SendCommand \/ GetData

GetDataDistFluxTemp ==
    /\ call.name \in FullForms \cup {"new"}
    /\ \E in \in SeqDataInputs : GetDataDistFluxTempWith(in[2])

GetDataDistAddr ==
    /\ call.name \in FullForms \cup {"new"}
    /\ \E addr \in Addrs, in \in SeqDataInputs : GetDataDistAddrWith(addr, in[2])

GetDataDist ==
    /\ call.name \in FullForms \cup {"new"}
    /\ \E in \in SeqDataInputs : GetDataDistWith(in[2])

SendCommandCmndParam ==
    /\ call.name \in FullForms \cup {"new"}
    /\ \E in \in SeqCmndInputs : SendCommandCmndParamWith(in[1], in[2], in[4])

NextForms ==
    \/ FirstFullForm
    \/ GetDataDistFluxTemp
    \/ GetDataDistAddr
    \/ GetDataDist
    \/ SendCommandCmndParam

SpecForms == Init /\ [][NextForms]_vars

(* The first call on a new instance, over all the inputs *)
FirstSendCommand ==
    /\ call.name = "new"
    /\ \E in \in CmndInputs : SendCommandWith(in[1], in[2], in[3], in[4])

FirstGetData ==
    /\ call.name = "new"
    /\ \E in \in DataInputs : GetDataWith(in[1], in[2])

\* either of them
NextFirst == FirstSendCommand \/ FirstGetData

SpecFirst == Init /\ [][NextFirst]_vars

SpecCmnd == Init /\ [][FirstSendCommand]_vars

SpecData == Init /\ [][FirstGetData]_vars

----------------------------------------------------------------------------
(* Properties *)

IsSendCommand == call.name = "sendCommand"
IsGetData     == call.name = "getData"

\* the write of the last call was accepted in full and ended with code 0
CleanWrite == call.bus.short = 0 /\ call.bus.endCode = 0

\* positions of the calls of the given kinds in the bus log
Calls(ops) == { i \in 1 .. Len(wire) : wire[i].op \in ops }

\* the last call asked the bus for no reply and read no byte
NoRead == Calls({"requestFrom", "peek", "read"}) = {}

\* the reply length and the command length declared by a command word
ReplyLenOf(cmnd) == cmnd % 256
CmndLenOf(cmnd)  == (cmnd \div 256) % 256

ErrorCodes ==
    { TFMP_I2CLENGTH, TFMP_I2CWRITE, TFMP_I2CREAD, TFMP_CHECKSUM,
      TFMP_WEAK, TFMP_STRONG, TFMP_FLOOD }

(* C1: after any sequence of getData and sendCommand calls, sendCommand     *)
(* returns true if and only if status is Ready (0) when it returns.         *)
C1_SendCommandTrueIffReady ==
    IsSendCommand => (ret = TRUE <=> tfmp.status = TFMP_READY)

(* C2: after any sequence of calls and for every bus behaviour, getData     *)
(* returns true if and only if status is Ready (0) on return, and false     *)
(* with the status of the error: I2C-length after a short write, I2C-write  *)
(* after a failed end of transmission, I2C-read after a missing frame byte, *)
(* otherwise Checksum, Weak, Strong or Flood.                               *)
C2_GetDataTrueIffReady ==
    IsGetData =>
        /\ ret = TRUE <=> tfmp.status = TFMP_READY
        /\ ret = FALSE => tfmp.status \in ErrorCodes
        /\ call.bus.short > 0 => tfmp.status = TFMP_I2CLENGTH
        /\ call.bus.short = 0 /\ call.bus.endCode # 0
             => tfmp.status = TFMP_I2CWRITE
        /\ CleanWrite /\ Len(call.bus.rx) < TFMP_FRAME_SIZE
             => tfmp.status = TFMP_I2CREAD
        /\ CleanWrite /\ Len(call.bus.rx) >= TFMP_FRAME_SIZE
             => tfmp.status \in
                  {TFMP_READY, TFMP_CHECKSUM, TFMP_WEAK, TFMP_STRONG, TFMP_FLOOD}

\* getData failed with Flood after an earlier sendCommand had stored a
\* firmware version
C2_Witness ==
    /\ IsGetData /\ ret = FALSE /\ tfmp.status = TFMP_FLOOD
    /\ tfmp.version # Zeros(3)

(* C3: in sendCommand a write that accepts fewer bytes than the command     *)
(* length gives false with status I2C-length, and after a fully accepted    *)
(* write a non-zero end-of-transmission code gives false with status        *)
(* I2C-write; in both cases the call issues no requestFrom and reads no     *)
(* byte.                                                                    *)
C3_WriteErrorsStopTheCall ==
    IsSendCommand =>
        /\ call.bus.short > 0
             => ret = FALSE /\ tfmp.status = TFMP_I2CLENGTH /\ NoRead
        /\ call.bus.short = 0 /\ call.bus.endCode # 0
             => ret = FALSE /\ tfmp.status = TFMP_I2CWRITE /\ NoRead

\* a short write of a command that expects a reply
C3_Witness ==
    /\ IsSendCommand /\ call.cmnd = GET_FIRMWARE_VERSION
    /\ call.bus.short > 0 /\ call.bus.endCode # 0
    /\ wire[2].op = "write" /\ wire[2].r < Len(wire[2].data)
    /\ ret = FALSE /\ tfmp.status = TFMP_I2CLENGTH

(* C4: whenever the bus has no byte where an operation expects to read one  *)
(* (peek or read answers -1), in getData or in sendCommand, the operation   *)
(* returns false with status I2C-read.                                      *)
C4_MissingByteIsReadError ==
    (\E i \in Calls({"peek", "read"}) : wire[i].r = -1)
        => ret = FALSE /\ tfmp.status = TFMP_I2CREAD

(* C5: for each of the five commands whose reply length is zero,            *)
(* sendCommand returns true right after a clean write: the bus sees         *)
(* beginTransmission, write, endTransmission and nothing else (no delay,    *)
(* no requestFrom, no read), and neither the reply buffer nor the version   *)
(* nor the status is touched.                                               *)
NoReplyCommands ==
    { SET_SERIAL_MODE, SET_I2C_MODE, I2C_FORMAT_CM, I2C_FORMAT_MM,
      TRIGGER_DETECTION }

C5_NoReplyReturnsAfterWrite ==
    /\ { c \in Commands : ReplyLenOf(c) = 0 } = NoReplyCommands
    /\ IsSendCommand /\ call.cmnd \in NoReplyCommands /\ CleanWrite
         => /\ ret = TRUE
            /\ [i \in 1 .. Len(wire) |-> wire[i].op]
                 = << "beginTransmission", "write", "endTransmission" >>
            /\ tfmp.reply = Zeros(TFMP_REPLY_SIZE + 1)
            /\ tfmp.version = Zeros(3)
            /\ tfmp.status = TFMP_READY

C5_Witness ==
    /\ IsSendCommand /\ call.cmnd = TRIGGER_DETECTION /\ CleanWrite
    /\ ret = TRUE /\ Len(wire) = 3

(* C6: sendCommand writes the command frame to the address the caller      *)
(* passed; the reply read request goes to the low 8 bits of param when the  *)
(* command is SET_I2C_ADDRESS and to the caller's address for every other   *)
(* command.                                                                 *)
C6_WriteAndReplyAddress ==
    IsSendCommand =>
        /\ \A i \in Calls({"beginTransmission", "write", "endTransmission"}) :
              wire[i].addr = call.addr
        /\ \A i \in Calls({"requestFrom"}) :
              wire[i].addr = IF call.cmnd = SET_I2C_ADDRESS
                             THEN call.param % 256
                             ELSE call.addr

\* an address change whose reply is requested from the new address
C6_Witness ==
    /\ IsSendCommand /\ call.cmnd = SET_I2C_ADDRESS
    /\ call.param = \H7A6B5C2D /\ call.addr = TFMP_DEFAULT_ADDRESS
    /\ \E i \in Calls({"requestFrom"}) : wire[i].addr = \H2D
    /\ wire[1].op = "beginTransmission" /\ wire[1].addr = TFMP_DEFAULT_ADDRESS

(* C7: for every command of the defined set and every parameter, the byte   *)
(* string sendCommand hands to Wire.write has exactly `command length`      *)
(* bytes: byte 0 is 0x5A, byte 1 the command length, byte 2 the command     *)
(* number, and the last byte the sum of all the bytes before it mod 256.    *)
C7_CommandFrame ==
    IsSendCommand =>
        /\ wire[2].op = "write"
        /\ Calls({"write"}) \subseteq {2, 3}
        /\ LET data == wire[2].data
               n    == CmndLenOf(call.cmnd)
           IN  /\ Len(data) = n
               /\ data[1] = \H5A
               /\ data[2] = n
               /\ data[3] = (call.cmnd \div 65536) % 256
               /\ data[n] = SumSeq(SubSeq(data, 1, n - 1)) % 256

\* SET_BAUD_RATE with parameter 0x7A6B5C2D: 5A 08 06 2D 5C 6B 7A D6
C7_Witness ==
    /\ IsSendCommand /\ call.cmnd = SET_BAUD_RATE /\ call.param = \H7A6B5C2D
    /\ wire[2].data = << \H5A, 8, 6, \H2D, \H5C, \H6B, \H7A, \HD6 >>

\* the last byte of a whole data frame is the sum of the others mod 256
SumOK(rx) == SumSeq(SubSeq(rx, 1, TFMP_FRAME_SIZE - 1)) % 256 = rx[TFMP_FRAME_SIZE]

\* getData got a whole frame after a clean write
WholeFrame == IsGetData /\ CleanWrite /\ Len(call.bus.rx) = TFMP_FRAME_SIZE

\* getData went past its checksum test
PastChecksum ==
    IsGetData /\ tfmp.status \in {TFMP_READY, TFMP_WEAK, TFMP_STRONG, TFMP_FLOOD}

\* rx is a frame with a right checksum in which one bit of bytes 0..7 was
\* inverted: inverting that bit again gives the right checksum
OneBitOff(rx) ==
    \E at \in 0 .. 7, k \in 0 .. 7 : SumOK(Corrupt(rx, at, k))

(* C8: a 9-byte data frame whose byte 8 is the sum of bytes 0..7 mod 256,   *)
(* with any single bit of bytes 0..7 inverted and byte 8 left alone, makes  *)
(* getData return false with status Checksum; and getData goes past the     *)
(* checksum test only if sum(bytes[0..7]) mod 256 = bytes[8].               *)
C8_ChecksumDetectsOneBit ==
    /\ WholeFrame /\ OneBitOff(call.bus.rx)
         => ret = FALSE /\ tfmp.status = TFMP_CHECKSUM
    /\ PastChecksum => Len(call.bus.rx) = TFMP_FRAME_SIZE /\ SumOK(call.bus.rx)

\* the high bit of the temperature's high byte was inverted on the way
C8_Witness ==
    /\ WholeFrame /\ SumOK(Corrupt(call.bus.rx, 7, 7))
    /\ ret = FALSE /\ tfmp.status = TFMP_CHECKSUM

\* the little-endian word at offset at of a frame on the wire is v (16 bits)
WordIs(rx, at, v) ==
    rx[at + 1] = v % 256 /\ rx[at + 2] = (v \div 256) % 256

(* C9: for a data frame with a right checksum getData classifies in strict  *)
(* priority order: distance -1 gives Weak whatever flux and temperature     *)
(* are (also when flux is -1); otherwise flux -1 gives Strong (also when    *)
(* distance is -4); otherwise distance -4 gives Flood; otherwise Ready.     *)
C9_ClassificationOrder ==
    WholeFrame /\ SumOK(call.bus.rx) =>
        LET distM1 == WordIs(call.bus.rx, 2, 65536 - 1)
            distM4 == WordIs(call.bus.rx, 2, 65536 - 4)
            fluxM1 == WordIs(call.bus.rx, 4, 65536 - 1)
        IN  /\ distM1 => tfmp.status = TFMP_WEAK
            /\ ~distM1 /\ fluxM1 => tfmp.status = TFMP_STRONG
            /\ ~distM1 /\ ~fluxM1 /\ distM4 => tfmp.status = TFMP_FLOOD
            /\ ~distM1 /\ ~fluxM1 /\ ~distM4 => tfmp.status = TFMP_READY

\* distance -1 with flux -1 is Weak
C9_Witness ==
    /\ WholeFrame /\ SumOK(call.bus.rx)
    /\ WordIs(call.bus.rx, 2, 65535) /\ WordIs(call.bus.rx, 4, 65535)
    /\ tfmp.status = TFMP_WEAK /\ ret = FALSE

\* the signed 16-bit value of the little-endian word at offset at
Signed(rx, at) ==
    IF rx[at + 2] >= 128 THEN rx[at + 1] + 256 * rx[at + 2] - 65536
                         ELSE rx[at + 1] + 256 * rx[at + 2]

\* floor( x / 8): the arithmetic shift right by 3 bits
Floor8(x) == CHOOSE q \in -4096 .. 4095 : 8 * q <= x /\ x < 8 * q + 8

(* C10: for every data frame with a right checksum getData yields distance  *)
(* and flux as the signed 16-bit little-endian values at offsets 2 and 4,   *)
(* and as temperature the signed 16-bit little-endian value at offset 6     *)
(* shifted right arithmetically by 3 bits, minus 256.                       *)
C10_DecodedValues ==
    WholeFrame /\ SumOK(call.bus.rx) =>
        /\ out.dist = Signed(call.bus.rx, 2)
        /\ out.flux = Signed(call.bus.rx, 4)
        /\ out.temp = Floor8(Signed(call.bus.rx, 6)) - 256

\* temperature code 0xF007 = -4089: ( -4089 >> 3) - 256 = -768
C10_Witness ==
    /\ WholeFrame /\ SumOK(call.bus.rx)
    /\ WordIs(call.bus.rx, 6, \HF007) /\ WordIs(call.bus.rx, 2, \H8000)
    /\ out.temp = -768 /\ out.dist = -32768 /\ ret = TRUE

(* C11: the temperature decode of getData maps the raw code 0x0800 to 0,    *)
(* the raw code 0x0000 to -256 and the raw code 0x0FFF to -1.               *)
C11_TemperatureFixtures ==
    WholeFrame /\ SumOK(call.bus.rx) =>
        /\ WordIs(call.bus.rx, 6, \H0800) => out.temp = 0
        /\ WordIs(call.bus.rx, 6, \H0000) => out.temp = -256
        /\ WordIs(call.bus.rx, 6, \H0FFF) => out.temp = -1

(* C11, amended: the temperature decode of getData maps the raw code       *)
(* 0x0800 to 0, the raw code 0x0000 to -256 and the raw code 0x0FFF to 255  *)
(* (4095 >> 3 is 511, and 511 - 256 is 255).                                *)
C11_TemperatureFixturesAmended ==
    WholeFrame /\ SumOK(call.bus.rx) =>
        /\ WordIs(call.bus.rx, 6, \H0800) => out.temp = 0
        /\ WordIs(call.bus.rx, 6, \H0000) => out.temp = -256
        /\ WordIs(call.bus.rx, 6, \H0FFF) => out.temp = 255

\* the raw code 0x0FFF has been decoded
C11_Witness ==
    /\ WholeFrame /\ SumOK(call.bus.rx) /\ WordIs(call.bus.rx, 6, \H0FFF)
    /\ out.temp = 255

\* getData for device 0x10 got these nine bytes after a clean write
Scenario(bytes) ==
    /\ IsGetData /\ call.addr = \H10 /\ CleanWrite
    /\ call.bus.rx = bytes

(* C12: when getData for device 0x10 has a clean command write and the bus  *)
(* delivers the nine bytes 59 59 64 00 C8 00 18 09 0E, getData returns true *)
(* with distance 100, flux 200, temperature 35 and status Ready.            *)
C12_EndToEnd ==
    Scenario(ScenarioFrame) =>
        /\ ret = TRUE /\ tfmp.status = TFMP_READY
        /\ out = [dist |-> 100, flux |-> 200, temp |-> 35]

(* C12, amended: with the nine bytes 59 59 64 00 C8 00 18 09 FF, whose last *)
(* byte is the sum of the first eight mod 256, getData returns true with    *)
(* distance 100, flux 200, temperature 35 and status Ready.                 *)
C12_EndToEndAmended ==
    Scenario([ScenarioFrame EXCEPT ![9] = \HFF]) =>
        /\ ret = TRUE /\ tfmp.status = TFMP_READY
        /\ out = [dist |-> 100, flux |-> 200, temp |-> 35]

C12_Witness ==
    /\ Scenario(<< \H59, \H59, \H64, \H00, \HC8, \H00, \H18, \H09, \HFF >>)
    /\ wire[Len(wire)].op = "read" /\ wire[Len(wire)].r = \HFF
    /\ ret = TRUE

\* sendCommand of cmnd got a whole reply, with a right last byte, after a
\* clean write
WholeReply(cmnd) ==
    /\ IsSendCommand /\ call.cmnd = cmnd /\ CleanWrite
    /\ Len(call.bus.rx) = ReplyLenOf(cmnd)
    /\ SumSeq(SubSeq(call.bus.rx, 1, ReplyLenOf(cmnd) - 1)) % 256
         = call.bus.rx[ReplyLenOf(cmnd)]

(* C13: after a successful sendCommand( GET_FIRMWARE_VERSION) the stored    *)
(* version is the reverse of the reply bytes 3, 4, 5: version[0] is         *)
(* reply[5], version[1] is reply[4], version[2] is reply[3]; reply bytes    *)
(* 01 02 03 at offsets 3, 4, 5 give the version (03, 02, 01).               *)
C13_VersionReversed ==
    WholeReply(GET_FIRMWARE_VERSION) =>
        /\ ret = TRUE
        /\ tfmp.version[0] = call.bus.rx[6]
        /\ tfmp.version[1] = call.bus.rx[5]
        /\ tfmp.version[2] = call.bus.rx[4]
        /\ SubSeq(call.bus.rx, 4, 6) = << 1, 2, 3 >>
             => tfmp.version = [i \in 0 .. 2 |-> 3 - i]

\* the reply 5A 07 01 01 02 03 68 has been read
C13_Witness ==
    /\ WholeReply(GET_FIRMWARE_VERSION)
    /\ call.bus.rx = << \H5A, 7, 1, 1, 2, 3, \H68 >>
    /\ tfmp.version[0] = 3 /\ tfmp.version[1] = 2 /\ tfmp.version[2] = 1

(* C14: for SOFT_RESET, HARD_RESET and SAVE_SETTINGS every reply that       *)
(* passes the checksum test and whose byte at offset 3 is not zero (1 to    *)
(* 255) makes sendCommand return false with status Fail; such a reply with  *)
(* byte 3 equal to zero makes it return true.                               *)
C14_NonZeroByteIsFail ==
    \A cmnd \in {SOFT_RESET, HARD_RESET, SAVE_SETTINGS} :
        WholeReply(cmnd) =>
            /\ call.bus.rx[4] # 0 => ret = FALSE /\ tfmp.status = TFMP_FAIL
            /\ call.bus.rx[4] = 0 => ret = TRUE

----------------------------------------------------------------------------
(* recoverI2CBus: what the pins saw *)

IsRecover == call.name = "recoverI2CBus"
DataPin   == call.pins[1]
ClockPin  == call.pins[2]

Highest(S) == CHOOSE x \in S : \A y \in S : y <= x

\* positions of the calls `op` on `pin`
PinCalls(op, pin) ==
    { i \in DOMAIN wire : wire[i].op = op /\ wire[i].addr = pin }

\* what the last call `op` on `pin` before position i passed, -1 if none
LastBefore(op, pin, i) ==
    LET S == { j \in PinCalls(op, pin) : j < i }
    IN  IF S = {} THEN -1 ELSE wire[Highest(S)].r

LevelAt(pin, i) == LastBefore("digitalWrite", pin, i)
FinalLevel(pin) == LevelAt(pin, Len(wire) + 1)
FinalMode(pin)  == LastBefore("pinMode", pin, Len(wire) + 1)

\* the writes that take `pin` from high to low
Falls(pin) ==
    { i \in PinCalls("digitalWrite", pin) :
        wire[i].r = LOW /\ LevelAt(pin, i) = HIGH }

\* the writes that drive `pin` high
Rises(pin) ==
    { i \in PinCalls("digitalWrite", pin) : wire[i].r = HIGH }

StopOrder(clockLevel) ==
    LET writes == { i \in DOMAIN wire : wire[i].op = "digitalWrite" }
    IN  \E i, j, k \in writes :
            /\ i < j /\ j < k
            /\ \A n \in writes : n > i => n \in {j, k}
            /\ wire[i] = DigitalWrite(DataPin, LOW)
            /\ LevelAt(ClockPin, i) = clockLevel
            /\ wire[j] = DigitalWrite(ClockPin, HIGH)
            /\ wire[k] = DigitalWrite(DataPin, HIGH)
            /\ LevelAt(ClockPin, k) = HIGH

\* C20: in recoverI2CBus the stop condition is emitted in this order: the
\* data line is driven low while the clock line is high, then the clock line
\* is raised, then the data line is raised while the clock line is high.
C20_StopWithClockHigh ==
    IsRecover => StopOrder(HIGH)

\* C20 (amended): in recoverI2CBus the stop condition is emitted in this
\* order: after the tenth clock pulse, with the clock line low, the data
\* line is driven low, then the clock line is raised, then the data line is
\* raised while the clock line is high.
C20_StopWithClockLow ==
    IsRecover =>
        /\ StopOrder(LOW)
        /\ \A i \in PinCalls("digitalWrite", DataPin) :
               wire[i].r = LOW => \A f \in Falls(ClockPin) : f < i

C20_Witness ==
    /\ IsRecover
    /\ call.pins = << 18, 19 >>
    /\ wire[44] = DigitalWrite(18, LOW)
    /\ LevelAt(19, 44) = LOW
    /\ wire[46] = DigitalWrite(19, HIGH)
    /\ wire[48] = DigitalWrite(18, HIGH)

\* getData classified the frame as abnormal
Abnormal ==
    IsGetData /\ tfmp.status \in {TFMP_WEAK, TFMP_STRONG, TFMP_FLOOD}

(* C16: when getData receives a frame with a right checksum that classifies *)
(* as Weak, Strong or Flood, it returns false, but dist, flux and temp hold *)
(* the values decoded from that frame, as for a Ready frame.                *)
C16_AbnormalFramePopulated ==
    Abnormal =>
        /\ ret = FALSE
        /\ WholeFrame /\ SumOK(call.bus.rx)
        /\ out = [dist |-> Signed(call.bus.rx, 2),
                  flux |-> Signed(call.bus.rx, 4),
                  temp |-> Floor8(Signed(call.bus.rx, 6)) - 256]

\* a saturated signal at 100 cm and 35 degrees
C16_Witness ==
    /\ Abnormal /\ tfmp.status = TFMP_STRONG /\ ret = FALSE
    /\ WordIs(call.bus.rx, 2, 100) /\ WordIs(call.bus.rx, 6, \H0918)
    /\ out = [dist |-> 100, flux |-> -1, temp |-> 35]

\* getData stopped before it interpreted a frame
Aborted ==
    /\ IsGetData /\ ret = FALSE
    /\ tfmp.status \in {TFMP_I2CLENGTH, TFMP_I2CWRITE, TFMP_I2CREAD, TFMP_CHECKSUM}

(* C17: when getData fails because of a command-write error, a short data   *)
(* read or a checksum mismatch, it leaves the caller's dist, flux and temp  *)
(* as they were before the call.                                            *)
C17_AbortedKeepsOutputs ==
    [][Aborted' => out' = out]_vars

\* a frame for 100 cm with a wrong checksum, after a saturated reading
C17_Witness ==
    /\ Aborted /\ tfmp.status = TFMP_CHECKSUM
    /\ WholeFrame /\ WordIs(call.bus.rx, 2, 100)
    /\ out = [dist |-> -4, flux |-> -1, temp |-> 35]

(* C19: across any sequence of getData, sendCommand and recoverI2CBus calls *)
(* the stored firmware version changes only during a call of                *)
(* sendCommand(GET_FIRMWARE_VERSION) that returns true; every other         *)
(* operation, and every GET_FIRMWARE_VERSION call that fails, leaves the    *)
(* three version bytes as they were.                                        *)
C19_VersionRetained ==
    [][tfmp'.version # tfmp.version =>
          /\ call'.name = "sendCommand"
          /\ call'.cmnd = GET_FIRMWARE_VERSION
          /\ ret' = TRUE]_vars

\* version 3.2.1 is kept when a later version reply (0, 1, 2) fails its
\* checksum test
C19_Witness ==
    /\ IsSendCommand /\ call.cmnd = GET_FIRMWARE_VERSION
    /\ ret = FALSE /\ tfmp.status = TFMP_CHECKSUM
    /\ tfmp.reply[3] = 0 /\ tfmp.reply[4] = 1 /\ tfmp.reply[5] = 2
    /\ tfmp.version = [i \in 0 .. 2 |-> 3 - i]

\* the step left the instance, the return value and the bus log as r has them
SameAs(r) == tfmp' = r.self /\ ret' = r.ret /\ wire' = r.wire

(* C18: the convenience forms delegate to the full forms with the default   *)
(* address 0x10: from the same starting state and with the same bus         *)
(* behaviour, getData(dist), getData(dist, flux, temp) and                  *)
(* sendCommand(cmnd, param) give the same bus operations, return value,     *)
(* status and distance as getData(dist, flux, temp, 0x10) and               *)
(* sendCommand(cmnd, param, 0x10), and getData(dist, addr) matches          *)
(* getData(dist, flux, temp, addr).                                         *)
C18_ConvenienceForms ==
    [][/\ call'.name = "getData_dist_flux_temp" =>
            LET r == getData(tfmp, out, \H10, call'.bus)
            IN  SameAs(r) /\ out' = r.out
       /\ call'.name = "getData_dist" =>
            LET r == getData(tfmp, out, \H10, call'.bus)
            IN  SameAs(r) /\ out'.dist = r.out.dist
       /\ call'.name = "getData_dist_addr" =>
            LET r == getData(tfmp, out, call'.addr, call'.bus)
            IN  SameAs(r) /\ out'.dist = r.out.dist
       /\ call'.name = "sendCommand_cmnd_param" =>
            LET r == sendCommand(tfmp, call'.cmnd, call'.param, \H10, call'.bus)
            IN  SameAs(r)]_vars

\* getData( dist) reads 100 cm from device 0x10 after a saturated reading:
\* the caller's flux and temp stay, the function's own flux and temp follow
C18_Witness ==
    /\ call.name = "getData_dist" /\ ret = TRUE
    /\ \E i \in DOMAIN wire : wire[i].op = "requestFrom" /\ wire[i].addr = \H10
    /\ out = [dist |-> 100, flux |-> -1, temp |-> 35]
    /\ statics.getData_dist = [flux |-> 200, temp |-> 35]

\* positions of the calls of Wire.begin()
Begins == { i \in DOMAIN wire : wire[i].op = "begin" }

(* C21: in recoverI2CBus the data line is driven high before the first      *)
(* clock pulse and stays high during all 10 clock pulses, and Wire.begin is *)
(* called only after both pins have been returned to input mode, as the     *)
(* last step of the procedure.                                              *)
C21_DataHeldThenRelease ==
    IsRecover =>
        /\ \A i \in PinCalls("digitalWrite", ClockPin) :
               i <= Highest(Falls(ClockPin)) => LevelAt(DataPin, i) = HIGH
        /\ \A i \in PinCalls("digitalWrite", DataPin) :
               i < Highest(Falls(ClockPin)) => wire[i].r = HIGH
        /\ Begins = { Len(wire) }
        /\ LastBefore("pinMode", DataPin, Len(wire)) = INPUT
        /\ LastBefore("pinMode", ClockPin, Len(wire)) = INPUT

C21_Witness ==
    /\ IsRecover
    /\ wire[2] = DigitalWrite(DataPin, HIGH)
    /\ wire[4] = DigitalWrite(ClockPin, HIGH)
    /\ LevelAt(DataPin, 42) = HIGH
    /\ wire[50] = PinMode(DataPin, INPUT)
    /\ wire[51] = PinMode(ClockPin, INPUT)
    /\ Begins = { 52 }

(* C22: getData first transmits the command I2C_FORMAT_CM, bytes            *)
(* 5A 05 00 01 60, to the given address, and only if that sendCommand       *)
(* returns true does it request the 9-byte data frame from the same         *)
(* address; if the command fails, getData returns false without a read      *)
(* request or a read, and status keeps the error set by sendCommand.        *)
C22_CommandThenFrame ==
    IsGetData =>
        /\ wire[1] = W("beginTransmission", call.addr, <<>>, 0)
        /\ wire[2].op = "write" /\ wire[2].addr = call.addr
        /\ wire[2].data = << \H5A, \H05, \H00, \H01, \H60 >>
        /\ CleanWrite =>
              /\ wire[3] = W("endTransmission", call.addr, <<>>, 0)
              /\ wire[4] = W("requestFrom", call.addr, <<>>, 9)
              /\ Calls({"requestFrom"}) = {4}
        /\ ~CleanWrite =>
              /\ ret = FALSE
              /\ NoRead
              /\ tfmp.status = IF call.bus.short > 0 THEN TFMP_I2CLENGTH
                                                     ELSE TFMP_I2CWRITE

\* the device at 0x11 does not acknowledge the command
C22_Witness ==
    /\ IsGetData /\ call.addr = 17
    /\ call.bus.short = 0 /\ call.bus.endCode # 0
    /\ wire[2].data = << \H5A, \H05, \H00, \H01, \H60 >>
    /\ Len(wire) = 3 /\ wire[3].op = "endTransmission"
    /\ ret = FALSE /\ tfmp.status = TFMP_I2CWRITE

\* how many calls of `op` the last operation made on the bus
Count(op) == Cardinality(Calls({op}))

(* C23: there is no retry inside the driver: for every bus behaviour a      *)
(* single sendCommand call begins at most one write transmission and issues *)
(* at most one read request, and a single getData call begins exactly one   *)
(* write transmission and issues at most one read request, whichever errors *)
(* occur.                                                                   *)
C23_NoRetry ==
    /\ IsSendCommand =>
          /\ Count("beginTransmission") <= 1
          /\ Count("endTransmission") <= 1
          /\ Count("requestFrom") <= 1
    /\ IsGetData =>
          /\ Count("beginTransmission") = 1
          /\ Count("endTransmission") = 1
          /\ Count("requestFrom") <= 1

\* a frame that stops after eight bytes is not asked for again
C23_Witness ==
    /\ IsGetData /\ tfmp.status = TFMP_I2CREAD /\ ret = FALSE
    /\ Len(call.bus.rx) = 8
    /\ Count("beginTransmission") = 1 /\ Count("requestFrom") = 1

(* C24: for every command with a non-zero reply length, whenever            *)
(* sendCommand issues the reply read request it has first completed the     *)
(* write transmission with error code 0 and then waited the fixed settling  *)
(* delay: the read request never precedes the delay and the delay never     *)
(* precedes the end of the write.                                           *)
C24_WriteDelayRequest ==
    IsSendCommand =>
        /\ \A q \in Calls({"requestFrom"}) :
              /\ ReplyLenOf(call.cmnd) # 0
              /\ \E e \in Calls({"endTransmission"}), d \in Calls({"delay"}) :
                    /\ e < d /\ d < q
                    /\ wire[e].r = 0
                    /\ wire[d].r = 500
        /\ \A d \in Calls({"delay"}) :
              /\ \A q \in Calls({"requestFrom"}) : d < q
              /\ \A e \in Calls({"endTransmission"}) : e < d
        /\ ReplyLenOf(call.cmnd) # 0 /\ CleanWrite
              => Count("requestFrom") = 1

\* the reply to a frame rate change is asked for after the delay
C24_Witness ==
    /\ IsSendCommand /\ call.cmnd = SET_FRAME_RATE /\ ret = TRUE
    /\ wire[3] = W("endTransmission", call.addr, <<>>, 0)
    /\ wire[4] = W("delay", 0, <<>>, 500)
    /\ wire[5] = W("requestFrom", call.addr, <<>>, 6)

\* how many bytes of param the command takes
ParamWidth(cmnd) ==
    IF cmnd = SET_FRAME_RATE THEN 2
    ELSE IF cmnd = SET_BAUD_RATE THEN 4
    ELSE IF cmnd = SET_I2C_ADDRESS THEN 1
    ELSE 0

SentCmnd == IF IsGetData THEN I2C_FORMAT_CM ELSE call.cmnd

\* sendCommand went on to read a reply
Replied == IsSendCommand /\ Count("requestFrom") > 0

(* C26: for every command of the defined set and every parameter and bus    *)
(* behaviour the buffer accesses of sendCommand and getData stay in bounds: *)
(* command bytes are written only at indices 0..7 of the command buffer     *)
(* (the checksum index, command length - 1, is within 3..7), reply bytes    *)
(* only at indices 0..replyLen-1 with replyLen <= 8, the reply checksum     *)
(* index replyLen-1 is evaluated only when replyLen >= 1, and the reply     *)
(* offsets interpreted (3, 4, 5 for the firmware version, 3 for reset and   *)
(* save) lie strictly below the reply checksum index.                       *)
C26_BuffersInBounds ==
    IsSendCommand \/ IsGetData =>
        /\ SentCmnd \in Commands
        /\ CmndDataWritten(SentCmnd) \subseteq 0 .. 7
        /\ CmndChkIndex(tfmp.cmndLen) \in 3 .. 7
        /\ tfmp.cmndLen = CmndLenOf(SentCmnd)
        /\ Len(wire[2].data) = tfmp.cmndLen
        /\ Replied =>
              /\ tfmp.replyLen >= 1 /\ tfmp.replyLen <= 8
              /\ Count("read") = Cardinality(ReplyWritten(tfmp.replyLen))
              /\ ReplyWritten(tfmp.replyLen) \subseteq 0 .. 7
              /\ ReplyChkIndex(tfmp.replyLen) \in 0 .. 7
              /\ \A i \in ReplyInterpreted(SentCmnd) :
                     i < ReplyChkIndex(tfmp.replyLen)
        /\ IsSendCommand /\ tfmp.replyLen = 0 => ~Replied
        /\ IsGetData => Count("read") <= TFMP_FRAME_SIZE

\* the longest command, the longest reply
C26_Witness ==
    /\ Replied /\ call.cmnd = SET_BAUD_RATE /\ ret = TRUE
    /\ CmndChkIndex(tfmp.cmndLen) = 7
    /\ ReplyChkIndex(tfmp.replyLen) = 7
    /\ Count("read") = 8

====
